---------------------------- MODULE Spec2Model ----------------------------
(***************************************************************************)
(* A model of scraper.py: the VHS course watcher.                          *)
(*                                                                         *)
(* Text is a sequence of characters, each character a string; a character  *)
(* TLA+ strings cannot hold is written by name ("ndash" is U+2013,         *)
(* "mdash" is U+2014).  Offsets into text are 0-based, as in Python.       *)
(***************************************************************************)
EXTENDS Integers, Sequences, FiniteSets, TLC

(***************************************************************************)
(* Characters                                                              *)
(***************************************************************************)
Digits == {"0", "1", "2", "3", "4", "5", "6", "7", "8", "9"}

UpperSeq == <<"A", "B", "C", "D", "E", "F", "G", "H", "I", "J", "K", "L", "M",
              "N", "O", "P", "Q", "R", "S", "T", "U", "V", "W", "X", "Y", "Z">>

LowerSeq == <<"a", "b", "c", "d", "e", "f", "g", "h", "i", "j", "k", "l", "m",
              "n", "o", "p", "q", "r", "s", "t", "u", "v", "w", "x", "y", "z">>

Upper == {UpperSeq[k] : k \in 1..Len(UpperSeq)}

Lower == {LowerSeq[k] : k \in 1..Len(LowerSeq)}

\* \w of the re module
WordChars == Upper \cup Lower \cup Digits \cup {"_"}

\* what str.strip() removes
Whitespace == {" ", "\t", "\n", "\r"}

\* where str.splitlines() breaks
LineBreaks == {"\n", "\r"}

\* the argument of .strip(" -–—\t")
TitleStripChars == {" ", "-", "ndash", "mdash", "\t"}

\* the characters of the model in code point order, which is the order
\* Python compares strings by
CodeOrder == <<"\t", "\n", "\r", " ", "-", ".">>
             \o <<"0", "1", "2", "3", "4", "5", "6", "7", "8", "9", ":">>
             \o UpperSeq \o <<"_">> \o LowerSeq \o <<"ndash", "mdash">>

Ord(c) == CHOOSE k \in 1..Len(CodeOrder) : CodeOrder[k] = c

SetMin(S) == CHOOSE x \in S : \A y \in S : x <= y

SetMax(S) == CHOOSE x \in S : \A y \in S : x >= y

\* one character of str.lower()
ToLower(c) ==
    IF c \in Upper
    THEN LowerSeq[CHOOSE k \in 1..Len(UpperSeq) : UpperSeq[k] = c]
    ELSE c

\* str.lower()
LowerCase(s) == [k \in 1..Len(s) |-> ToLower(s[k])]

\* a < b on Python strings
StrLess(a, b) ==
    LET n == IF Len(a) < Len(b) THEN Len(a) ELSE Len(b)
        d == {k \in 1..n : a[k] # b[k]}
    IN  IF d = {} THEN Len(a) < Len(b)
        ELSE Ord(a[SetMin(d)]) < Ord(b[SetMin(d)])

\* sorted(S, reverse=True)
RECURSIVE SortedIdsDesc(_)
SortedIdsDesc(S) ==
    IF S = {} THEN <<>>
    ELSE LET m == CHOOSE x \in S : \A y \in S \ {x} : StrLess(y, x)
         IN  <<m>> \o SortedIdsDesc(S \ {m})

\* sorted(S) of a set of strings
RECURSIVE SortedIds(_)
SortedIds(S) ==
    IF S = {} THEN <<>>
    ELSE LET m == CHOOSE x \in S : \A y \in S \ {x} : StrLess(x, y)
         IN  <<m>> \o SortedIds(S \ {m})

\* t[p] and t[a:b]
At(t, p) == t[p + 1]

Slice(t, a, b) == SubSeq(t, a + 1, b)

\* s.strip(chars)
Strip(s, chars) ==
    LET keep == {k \in 1..Len(s) : s[k] \notin chars}
    IN  IF keep = {} THEN <<>> ELSE SubSeq(s, SetMin(keep), SetMax(keep))

\* s.splitlines(); the empty pieces a double break leaves are dropped by
\* the caller's filter
RECURSIVE SplitLines(_)
SplitLines(t) ==
    LET br == {k \in 1..Len(t) : t[k] \in LineBreaks}
    IN  IF br = {} THEN (IF t = <<>> THEN <<>> ELSE <<t>>)
        ELSE <<SubSeq(t, 1, SetMin(br) - 1)>>
             \o SplitLines(SubSeq(t, SetMin(br) + 1, Len(t)))

RECURSIVE Concat(_)
Concat(ss) == IF ss = <<>> THEN <<>> ELSE Head(ss) \o Concat(Tail(ss))

(***************************************************************************)
(* COURSE_ID_RE = \b(FK\d\.\d{3}(?:-[A-Z])?)\b                             *)
(***************************************************************************)
\* \b at offset p
IsBoundary(t, p) ==
    LET before == p > 0 /\ At(t, p - 1) \in WordChars
        after  == p < Len(t) /\ At(t, p) \in WordChars
    IN  before # after

\* FK\d\.\d{3} at offset p
MatchCore(t, p) ==
    /\ p + 7 <= Len(t)
    /\ At(t, p) = "F"
    /\ At(t, p + 1) = "K"
    /\ At(t, p + 2) \in Digits
    /\ At(t, p + 3) = "."
    /\ At(t, p + 4) \in Digits
    /\ At(t, p + 5) \in Digits
    /\ At(t, p + 6) \in Digits

\* (?:-[A-Z])? taken, followed by \b
MatchSuffix(t, p) ==
    /\ p + 9 <= Len(t)
    /\ At(t, p + 7) = "-"
    /\ At(t, p + 8) \in Upper
    /\ IsBoundary(t, p + 9)

\* the end offset of the match that starts at offset p, 0 when there is none:
\* the optional group is tried first and given up when \b fails after it
MatchEnd(t, p) ==
    IF ~(IsBoundary(t, p) /\ MatchCore(t, p)) THEN 0
    ELSE IF MatchSuffix(t, p) THEN p + 9
    ELSE IF IsBoundary(t, p + 7) THEN p + 7
    ELSE 0

\* COURSE_ID_RE.finditer(t), from offset p on
RECURSIVE FindIter(_, _)
FindIter(t, p) ==
    IF p >= Len(t) THEN <<>>
    ELSE IF MatchEnd(t, p) > 0
         THEN <<[start |-> p, end |-> MatchEnd(t, p)]>> \o FindIter(t, MatchEnd(t, p))
         ELSE FindIter(t, p + 1)

\* m.group(1)
Group1(t, m) == Slice(t, m.start, m.end)

\* COURSE_ID_RE.search(ln)
Search(ln) == FindIter(ln, 0) # <<>>

\* COURSE_ID_RE.sub("", t), from offset p on
RECURSIVE SubEmpty(_, _)
SubEmpty(t, p) ==
    IF p >= Len(t) THEN <<>>
    ELSE IF MatchEnd(t, p) > 0 THEN SubEmpty(t, MatchEnd(t, p))
         ELSE <<At(t, p)>> \o SubEmpty(t, p + 1)

(***************************************************************************)
(* pdf_to_courses: the pieces of one loop iteration                        *)
(***************************************************************************)
TitleScanLines == 6

MinTitleLen == 6

\* full_text: the text of every page whose text is not blank
FullText(pages) == SelectSeq(pages, LAMBDA p : Strip(p, Whitespace) # <<>>)

\* "\n".join(parts)
RECURSIVE JoinLines(_)
JoinLines(parts) ==
    IF parts = <<>> THEN <<>>
    ELSE IF Len(parts) = 1 THEN parts[1]
    ELSE parts[1] \o <<"\n">> \o JoinLines(Tail(parts))

\* end = len(text), whatever follows
BlockEndOfText(t, ms, i) == Len(t)

\* end = matches[i + 1].start() if i + 1 < len(matches) else len(text)
BlockEnd(t, ms, i) == IF i + 1 < Len(ms) THEN ms[i + 2].start ELSE Len(t)

\* block = text[start:end].strip()
Block(t, ms, i) == Strip(Slice(t, ms[i + 1].start, BlockEnd(t, ms, i)), Whitespace)

\* lines = [ln.strip() for ln in block.splitlines() if ln.strip()]
BlockLines(block) ==
    LET raw == SplitLines(block)
        stripped == [k \in 1..Len(raw) |-> Strip(raw[k], Whitespace)]
    IN  SelectSeq(stripped, LAMBDA l : l # <<>>)

\* lines, all of them
CandidatesAll(lines) == lines

\* lines[:6]
Candidates(lines) ==
    SubSeq(lines, 1, IF Len(lines) < TitleScanLines THEN Len(lines) ELSE TitleScanLines)

\* rest = COURSE_ID_RE.sub("", ln).strip(" -–—\t")
Rest(ln) == Strip(SubEmpty(ln, 0), TitleStripChars)

\* if rest and rest.lower() != cid.lower()
RestAccepted(rest, cid) == rest # <<>> /\ LowerCase(rest) # LowerCase(cid)

\* if len(ln) >= 6
LineAccepted(ln) == Len(ln) >= MinTitleLen

\* the for loop over the candidate lines, from the j-th on
RECURSIVE TitleScan(_, _, _)
TitleScan(cands, cid, j) ==
    IF j > Len(cands) THEN <<>>
    ELSE IF Search(cands[j])
         THEN IF RestAccepted(Rest(cands[j]), cid) THEN Rest(cands[j])
              ELSE TitleScan(cands, cid, j + 1)
         ELSE IF LineAccepted(cands[j]) THEN cands[j]
              ELSE TitleScan(cands, cid, j + 1)

Title(block, cid) == TitleScan(Candidates(BlockLines(block)), cid, 1)

\* Course(course_id=cid, title=title, raw=block)
Course(cid, title, raw) == [course_id |-> cid, title |-> title, raw |-> raw]

\* courses.setdefault(cid, c)
DictPutFirst(d, k, v) == [x \in DOMAIN d \cup {k} |-> IF x \in DOMAIN d THEN d[x] ELSE v]

\* courses[cid] = c
DictPut(d, k, v) == [x \in DOMAIN d \cup {k} |-> IF x = k THEN v ELSE d[x]]

EmptyDict == [x \in {} |-> x]

\* asdict(c), and what json.dump and json.load make of it
AsDict(c) == [course_id |-> c.course_id, title |-> c.title, raw |-> c.raw]

\* Course(**d)
CourseFromDict(d) == Course(d.course_id, d.title, d.raw)

\* save_state's out = {cid: asdict(c) for cid, c in courses.items()}
StateOf(cs) == [cid \in DOMAIN cs |-> AsDict(cs[cid])]

(***************************************************************************)
(* diff_courses                                                            *)
(***************************************************************************)
\* sorted(prev_ids - curr_ids), the operands the wrong way round
NewIdsSwapped(prev, curr) == SortedIds(DOMAIN prev \ DOMAIN curr)

\* new_ids = sorted(curr_ids - prev_ids)
NewIds(prev, curr) == SortedIds(DOMAIN curr \ DOMAIN prev)

\* removed_ids = sorted(prev_ids - curr_ids)

RemovedIds(prev, curr) == SortedIds(DOMAIN prev \ DOMAIN curr)

DiffCourses(prev, curr) ==
    LET new_ids == NewIds(prev, curr)
        removed_ids == RemovedIds(prev, curr)
    IN  [new_courses |-> [k \in 1..Len(new_ids) |-> curr[new_ids[k]]],
         removed_courses |->
             [k \in 1..Len(removed_ids) |-> CourseFromDict(prev[removed_ids[k]])]]

(***************************************************************************)
(* The configuration and the bounds of the model                           *)
(***************************************************************************)
\* len(WATCHERS)
NumWatchers == 2

\* len(CHAT_IDS), which the environment sets: at least one
NumChats == 2

\* how often the scheduler starts the process
MaxRuns == 2

\* pages of a document drawn for pdf_to_courses
MaxPages == 3

\* lines drawn between a block's first line and its end
MaxFill == 6

\* identifiers a snapshot drawn for diff_courses is made of
MaxDiffIds == 3

Watchers == 1..NumWatchers

CHAT_IDS == [k \in 1..NumChats |-> k]

(***************************************************************************)
(* Document texts                                                          *)
(***************************************************************************)
IdA == <<"F", "K", "2", ".", "6", "0", "4", "-", "A">>

IdB == <<"F", "K", "2", ".", "6", "0", "4">>

IdC == <<"F", "K", "2", ".", "6", "6", "4", "-", "C">>

IdD == <<"F", "K", "1", ".", "0", "0", "7">>

Sp == <<" ">>

Nl == <<"\n">>

Ring == <<"R", "i", "n", "g">>

Kette == <<"K", "e", "t", "t", "e", " ", "l", "o", "e", "t", "e", "n">>

Mo == <<"M", "o">>

Uhrzeit == <<"1", "8", ":", "0", "0", " ", "U", "h", "r">>

\* page texts as page.extract_text() returns them
PageTexts ==
    { IdA \o Sp \o Ring,
      IdA \o Nl \o Mo \o Nl \o Kette,
      IdB \o <<" ", "-", " ">>,
      IdB \o Sp \o LowerCase(IdB) \o Nl \o Mo,
      IdC \o <<"x">> \o Sp \o Ring \o Sp,
      <<" ", " ">>,
      Mo \o Sp \o IdA \o <<" ", "ndash", " ">> \o Ring \o Sp \o IdC,
      <<"A">> \o IdB \o Sp \o Kette }

RECURSIVE SeqsUpTo(_, _)
SeqsUpTo(S, n) ==
    IF n = 0 THEN {<<>>}
    ELSE LET shorter == SeqsUpTo(S, n - 1)
         IN  shorter \cup {Append(q, x) : q \in {r \in shorter : Len(r) = n - 1}, x \in S}

\* one block per document: a first line, up to MaxFill short or blank lines,
\* and an end
FirstLines ==
    { IdA, IdA \o Sp \o Ring, IdB \o <<" ", "mdash", "\t">>, IdB \o Sp \o LowerCase(IdB) }

FillLines == { Nl \o Mo, Nl \o Sp }

LastLines == { <<>>, Nl \o Kette, Nl \o Uhrzeit \o Nl \o Kette \o Nl }

BlockTexts ==
    { f \o Concat(m) \o l : f \in FirstLines, m \in SeqsUpTo(FillLines, MaxFill),
                            l \in LastLines }

\* the documents pdf_to_courses is checked on
ParseDocs == SeqsUpTo(PageTexts, MaxPages) \cup {<<b>> : b \in BlockTexts}

\* the documents a run of main() may download
MainDocs ==
    { <<>>,
      <<IdA \o Sp \o Ring>>,
      <<IdA \o Sp \o Kette>>,
      <<IdA \o Sp \o Ring, IdC \o Nl \o Kette>>,
      <<IdC \o Nl \o Kette>> }

\* the snapshots diff_courses is checked on: what save_state writes, a key
\* per record and the record's course_id equal to its key
DiffIdSeq == <<IdA, IdB, IdC, IdD>>

DiffIds == {DiffIdSeq[k] : k \in 1..(IF MaxDiffIds < Len(DiffIdSeq) THEN MaxDiffIds ELSE Len(DiffIdSeq))}

DiffTitles == {Ring, <<>>}

Snapshots ==
    UNION { [ids -> {Course(<<>>, t, <<>>) : t \in DiffTitles}] : ids \in SUBSET DiffIds }

Keyed(snap) ==
    [cid \in DOMAIN snap |-> Course(cid, snap[cid].title, cid \o Sp \o snap[cid].title)]

(***************************************************************************)
(* The state                                                               *)
(***************************************************************************)
VARIABLES
    run,              \* which start of the process this is
    pc,               \* where main() is
    w,                \* the watcher the for loop of main() is at
    state,            \* the state files, by watcher
    github_output,    \* whether GITHUB_OUTPUT is set
    has_new,          \* the has_new line written to GITHUB_OUTPUT
    prev_state,       \* main's locals
    pages,
    curr_courses,
    new_courses,
    removed_courses,
    chat,             \* send_telegram_message's position in CHAT_IDS
    text,             \* pdf_to_courses' locals
    matches,
    i,
    courses,
    blocks,           \* the values block took, one per iteration
    log,              \* what this run did, by watcher
    prevLog           \* what the run before did

vars == <<run, pc, w, state, github_output, has_new, prev_state, pages,
          curr_courses, new_courses, removed_courses, chat, text, matches, i,
          courses, blocks, log, prevLog>>

mainLocals == <<prev_state, pages, curr_courses, new_courses, removed_courses, chat>>

parseLocals == <<text, matches, i, courses, blocks>>

\* loaded: what load_state returned; before: the state file as the run found it;
\* fetch: how the download ended; parsed: pdf_to_courses was called; diffed, curr,
\* added: diff_courses was called, on what, and its new_courses; decided: the
\* if new_courses test was made; notified: send_telegram_message was called;
\* contacted: the chats posted to; sendFailed: a post failed; saved: save_state
\* was called
NoEntry ==
    [loaded |-> EmptyDict, before |-> EmptyDict, fetch |-> "none", parsed |-> FALSE,
     diffed |-> FALSE, curr |-> EmptyDict, added |-> <<>>, decided |-> FALSE,
     notified |-> FALSE, contacted |-> <<>>, sendFailed |-> FALSE, saved |-> FALSE]

NoLog == [k \in Watchers |-> NoEntry]

\* the log of a run that starts with the state files st
FreshLog(st) == [k \in Watchers |-> [NoEntry EXCEPT !.before = st[k]]]

Logged(field, value) == [log EXCEPT ![w] = [log[w] EXCEPT ![field] = value]]

InitLocals ==
    /\ prev_state = EmptyDict
    /\ pages = <<>>
    /\ curr_courses = EmptyDict
    /\ new_courses = <<>>
    /\ removed_courses = <<>>
    /\ chat = 0
    /\ text = <<>>
    /\ matches = <<>>
    /\ i = 0
    /\ courses = EmptyDict
    /\ blocks = <<>>

\* the process starts for the first time: no state file exists
Init ==
    /\ run = 1
    /\ pc = "load"
    /\ w = 1
    /\ state = [k \in Watchers |-> EmptyDict]
    /\ github_output \in BOOLEAN
    /\ has_new = "unset"
    /\ InitLocals
    /\ log = FreshLog(state)
    /\ prevLog = NoLog

(***************************************************************************)
(* main()                                                                  *)
(***************************************************************************)
\* prev_state = load_state(w["state_path"])
LoadState ==
    /\ pc = "load"
    /\ prev_state' = state[w]
    /\ log' = Logged("loaded", prev_state')
    /\ pc' = "fetch"
    /\ UNCHANGED <<run, w, state, github_output, has_new, pages, curr_courses,
                   new_courses, removed_courses, chat, parseLocals, prevLog>>

\* what download_pdf_via_webforms may meet
FetchOutcomes == {"ok", "get_failed", "post_failed", "not_pdf"}

\* download_pdf_via_webforms without its checks: whatever came is returned
AfterDownloadUnchecked(outcome) == "parse"

\* where main() is after download_pdf_via_webforms: it returns r2.content, or
\* raise_for_status() or the content type check raises
AfterDownload(outcome) == IF outcome = "ok" THEN "parse" ELSE "failed"

\* pdf_bytes = download_pdf_via_webforms(s, w["search_url"])
Download ==
    /\ pc = "fetch"
    /\ \E outcome \in FetchOutcomes, doc \in MainDocs :
           /\ pages' = IF outcome = "ok" THEN doc ELSE <<>>
           /\ log' = Logged("fetch", outcome)
           /\ pc' = AfterDownload(outcome)
    /\ UNCHANGED <<run, w, state, github_output, has_new, prev_state, curr_courses,
                   new_courses, removed_courses, chat, parseLocals, prevLog>>

\* pdf_to_courses up to its loop: the text of the pages and the matches
ParseBegin ==
    /\ pc = "parse"
    /\ text' = JoinLines(FullText(pages))
    /\ matches' = FindIter(text', 0)
    /\ courses' = EmptyDict
    /\ blocks' = <<>>
    /\ i' = 0
    /\ log' = Logged("parsed", TRUE)
    /\ pc' = "parse_loop"
    /\ UNCHANGED <<run, w, state, github_output, has_new, mainLocals, prevLog>>

\* one iteration of for i, m in enumerate(matches)
ParseStep ==
    /\ pc = "parse_loop"
    /\ i < Len(matches)
    /\ LET cid == Group1(text, matches[i + 1])
           block == Block(text, matches, i)
       IN  /\ courses' = DictPut(courses, cid, Course(cid, Title(block, cid), block))
           /\ blocks' = Append(blocks, block)
    /\ i' = i + 1
    /\ UNCHANGED <<run, pc, w, state, github_output, has_new, mainLocals, text,
                   matches, log, prevLog>>

\* return courses
ParseReturn ==
    /\ pc = "parse_loop"
    /\ i = Len(matches)
    /\ curr_courses' = courses
    /\ pc' = "diff"
    /\ UNCHANGED <<run, w, state, github_output, has_new, prev_state, pages,
                   new_courses, removed_courses, chat, parseLocals, log, prevLog>>

\* new_courses, removed_courses = diff_courses(prev_state, curr_courses)
Diff ==
    /\ pc = "diff"
    /\ new_courses' = DiffCourses(prev_state, curr_courses).new_courses
    /\ removed_courses' = DiffCourses(prev_state, curr_courses).removed_courses
    /\ log' = [log EXCEPT ![w] = [log[w] EXCEPT !.diffed = TRUE,
                                                !.curr = curr_courses,
                                                !.added = new_courses']]
    /\ pc' = "notify"
    /\ UNCHANGED <<run, w, state, github_output, has_new, prev_state, pages,
                   curr_courses, chat, parseLocals, prevLog>>

\* if new_courses or removed_courses:
ShouldNotifyAnyChange(new, removed) == new # <<>> \/ removed # <<>>

\* if new_courses:
ShouldNotify(new, removed) == new # <<>>

Notify ==
    /\ pc = "notify"
    /\ IF ShouldNotify(new_courses, removed_courses)
       THEN /\ chat' = 0
            /\ log' = [log EXCEPT ![w] = [log[w] EXCEPT !.decided = TRUE,
                                                        !.notified = TRUE]]
            /\ pc' = "send"
       ELSE /\ chat' = chat
            /\ log' = Logged("decided", TRUE)
            /\ pc' = "save"
    /\ UNCHANGED <<run, w, state, github_output, has_new, prev_state, pages,
                   curr_courses, new_courses, removed_courses, parseLocals, prevLog>>

\* send_telegram_message without r.raise_for_status()
AfterPostIgnored(ok) == "send"

\* r.raise_for_status() in send_telegram_message: on to the next chat, or out
AfterPost(ok) == IF ok THEN "send" ELSE "failed"

\* one iteration of for chat_id in CHAT_IDS
SendOne ==
    /\ pc = "send"
    /\ chat < Len(CHAT_IDS)
    /\ \E ok \in BOOLEAN :
           /\ log' = [log EXCEPT ![w] =
                         [log[w] EXCEPT !.contacted = Append(@, CHAT_IDS[chat + 1]),
                                        !.sendFailed = @ \/ ~ok]]
           /\ pc' = AfterPost(ok)
    /\ chat' = chat + 1
    /\ UNCHANGED <<run, w, state, github_output, has_new, prev_state, pages,
                   curr_courses, new_courses, removed_courses, parseLocals, prevLog>>

\* send_telegram_message returns
SendReturn ==
    /\ pc = "send"
    /\ chat = Len(CHAT_IDS)
    /\ pc' = "save"
    /\ UNCHANGED <<run, w, state, github_output, has_new, mainLocals, parseLocals,
                   log, prevLog>>

\* save_state called only under if new_courses
SaveStateIfNew ==
    /\ pc = "save"
    /\ state' = IF new_courses # <<>> THEN [state EXCEPT ![w] = StateOf(curr_courses)]
                 ELSE state
    /\ log' = Logged("saved", TRUE)
    /\ IF w < NumWatchers
       THEN w' = w + 1 /\ pc' = "load"
       ELSE w' = w /\ pc' = "output"
    /\ UNCHANGED <<run, github_output, has_new, mainLocals, parseLocals, prevLog>>

\* save_state(w["state_path"], curr_courses), and on to the next watcher
SaveState ==
    /\ pc = "save"
    /\ state' = [state EXCEPT ![w] = StateOf(curr_courses)]
    /\ log' = Logged("saved", TRUE)
    /\ IF w < NumWatchers
       THEN w' = w + 1 /\ pc' = "load"
       ELSE w' = w /\ pc' = "output"
    /\ UNCHANGED <<run, github_output, has_new, mainLocals, parseLocals, prevLog>>

\* has_new={'true' if new_courses else 'false'}
HasNewValue(new) == IF new # <<>> THEN "true" ELSE "false"

\* if os.getenv("GITHUB_OUTPUT"): write has_new
WriteOutput ==
    /\ pc = "output"
    /\ has_new' = IF github_output THEN HasNewValue(new_courses) ELSE has_new
    /\ pc' = "done"
    /\ UNCHANGED <<run, w, state, github_output, mainLocals, parseLocals, log, prevLog>>

\* the scheduler starts the process again: the state files are what is kept
NextRun ==
    /\ pc \in {"done", "failed"}
    /\ run < MaxRuns
    /\ run' = run + 1
    /\ pc' = "load"
    /\ w' = 1
    /\ has_new' = "unset"
    /\ prev_state' = EmptyDict
    /\ pages' = <<>>
    /\ curr_courses' = EmptyDict
    /\ new_courses' = <<>>
    /\ removed_courses' = <<>>
    /\ chat' = 0
    /\ text' = <<>>
    /\ matches' = <<>>
    /\ i' = 0
    /\ courses' = EmptyDict
    /\ blocks' = <<>>
    /\ prevLog' = log
    /\ log' = FreshLog(state)
    /\ UNCHANGED <<state, github_output>>

Next ==
    \/ LoadState
    \/ Download
    \/ ParseBegin
    \/ ParseStep
    \/ ParseReturn
    \/ Diff
    \/ Notify
    \/ SendOne
    \/ SendReturn
    \/ SaveState
    \/ WriteOutput
    \/ NextRun

Spec == Init /\ [][Next]_vars

(***************************************************************************)
(* pdf_to_courses on its own, over the documents of ParseDocs              *)
(***************************************************************************)
InitParse ==
    /\ run = 1
    /\ pc = "parse"
    /\ w = 1
    /\ state = [k \in Watchers |-> EmptyDict]
    /\ github_output = FALSE
    /\ has_new = "unset"
    /\ prev_state = EmptyDict
    /\ pages \in ParseDocs
    /\ curr_courses = EmptyDict
    /\ new_courses = <<>>
    /\ removed_courses = <<>>
    /\ chat = 0
    /\ text = <<>>
    /\ matches = <<>>
    /\ i = 0
    /\ courses = EmptyDict
    /\ blocks = <<>>
    /\ log = NoLog
    /\ prevLog = NoLog

NextParse == ParseBegin \/ ParseStep \/ ParseReturn

SpecParse == InitParse /\ [][NextParse]_vars

(***************************************************************************)
(* diff_courses on its own, over the snapshots of Snapshots                *)
(***************************************************************************)
InitDiff ==
    /\ run = 1
    /\ pc = "diff"
    /\ w = 1
    /\ state = [k \in Watchers |-> EmptyDict]
    /\ github_output = FALSE
    /\ has_new = "unset"
    /\ \E p \in Snapshots : prev_state = StateOf(Keyed(p))
    /\ pages = <<>>
    /\ \E c \in Snapshots : curr_courses = Keyed(c)
    /\ new_courses = <<>>
    /\ removed_courses = <<>>
    /\ chat = 0
    /\ text = <<>>
    /\ matches = <<>>
    /\ i = 0
    /\ courses = EmptyDict
    /\ blocks = <<>>
    /\ log = NoLog
    /\ prevLog = NoLog

NextDiff == Diff

SpecDiff == InitDiff /\ [][NextDiff]_vars

(***************************************************************************)
(* The watcher loop                                                        *)
(***************************************************************************)
Ids(cs) == {cs[k].course_id : k \in 1..Len(cs)}

FetchFailures == FetchOutcomes \ {"ok"}

\* the loop is past watcher k's save_state
Passed(k) == k < w \/ pc \in {"output", "done"}

AnyAdded == \E k \in Watchers : log[k].added # <<>>

\* C1: when a run ends and has_new was written, has_new is true exactly when
\* some search of the run had a non-empty added sequence
C1_HasNewIffAnyAdded ==
    (pc = "done" /\ has_new # "unset") => (has_new = "true" <=> AnyAdded)

\* C2: every search the loop is past has had its diff computed and its state
\* file holds its current record set of this run, whatever the diff was; and
\* a search the run before got past reports none of the identifiers of that
\* run's current record set as added
C2_SavedBeforeNextSearch ==
    \A k \in Watchers :
        /\ Passed(k) => log[k].diffed /\ state[k] = StateOf(log[k].curr)
        /\ (prevLog[k].saved /\ log[k].diffed)
               => Ids(log[k].added) \cap DOMAIN prevLog[k].curr = {}

\* a later search failed although the first was saved in both runs; the first
\* search's additions of the run before are not added again, and its empty
\* diff was saved all the same
C2_Witness ==
    /\ run = 2
    /\ pc = "failed"
    /\ w = 2
    /\ prevLog[2].fetch \in FetchFailures
    /\ prevLog[1].saved
    /\ prevLog[1].added # <<>>
    /\ log[1].added = <<>>
    /\ log[1].curr # prevLog[1].curr
    /\ state[1] = StateOf(log[1].curr)

\* C5: send_telegram_message is called for a search exactly when its added
\* sequence is non-empty; a search whose current identifiers are all in the
\* loaded snapshot is not notified, whatever its titles and raw texts are
C5_NotifiedIffAdded ==
    \A k \in Watchers :
        /\ log[k].notified => log[k].diffed /\ log[k].added # <<>>
        /\ log[k].decided => (log[k].notified <=> log[k].added # <<>>)
        /\ (log[k].decided /\ DOMAIN log[k].curr \subseteq DOMAIN log[k].loaded)
               => ~log[k].notified /\ log[k].contacted = <<>>

\* the first search was notified of an addition; the second kept its
\* identifier under another title and was not
C5_Witness ==
    /\ log[1].notified
    /\ log[1].added # <<>>
    /\ log[2].decided
    /\ ~log[2].notified
    /\ DOMAIN log[2].curr = DOMAIN log[2].loaded
    /\ DOMAIN log[2].curr # {}
    /\ StateOf(log[2].curr) # log[2].loaded

\* C6: when the download of search k fails, main() is over at k, the response
\* is not parsed, nothing is sent for k or a later search, no later search is
\* fetched, and the state files of k and the later searches are as the run
\* found them
C6_FetchFailureAborts ==
    \A k \in Watchers :
        log[k].fetch \in FetchFailures =>
            /\ pc = "failed"
            /\ w = k
            /\ ~log[k].parsed
            /\ ~log[k].diffed
            /\ \A j \in Watchers :
                   j >= k => /\ ~log[j].notified
                             /\ log[j].contacted = <<>>
                             /\ state[j] = log[j].before
            /\ \A j \in Watchers :
                   j > k => log[j].fetch = "none" /\ ~log[j].parsed

\* the second search's response is no PDF, after the first search was saved,
\* and the second search has a snapshot from the run before
C6_Witness ==
    /\ log[2].fetch = "not_pdf"
    /\ log[1].saved
    /\ log[1].notified
    /\ state[2] # EmptyDict
    /\ pc = "failed"

\* C10: when a post fails while search k is notified, the chats posted to are
\* the first ones of CHAT_IDS in order, up to the failing one; main() is over
\* at k; no later search is processed; the state file of k is what was loaded
\* and not the current record set; so the same current record set gives the
\* same additions again, in the next run too
C10_SendFailureAborts ==
    \A k \in Watchers :
        /\ log[k].sendFailed =>
               /\ pc = "failed"
               /\ w = k
               /\ log[k].contacted = SubSeq(CHAT_IDS, 1, chat)
               /\ \A j \in Watchers : j > k => log[j] = [NoEntry EXCEPT !.before = state[j]]
               /\ state[k] = log[k].loaded
               /\ state[k] # StateOf(log[k].curr)
               /\ DiffCourses(state[k], log[k].curr).new_courses = log[k].added
        /\ (prevLog[k].sendFailed /\ log[k].diffed /\ log[k].curr = prevLog[k].curr)
               => log[k].added = prevLog[k].added

\* the first post of the first search failed in the run before, with chats
\* left; this run finds the same document, adds the same courses and fails
\* at the second chat
C10_Witness ==
    /\ run = 2
    /\ prevLog[1].sendFailed
    /\ Len(prevLog[1].contacted) = 1
    /\ log[1].sendFailed
    /\ log[1].contacted = <<CHAT_IDS[1], CHAT_IDS[2]>>
    /\ log[1].curr = prevLog[1].curr
    /\ log[1].added = prevLog[1].added
    /\ log[1].added # <<>>

(***************************************************************************)
(* diff_courses                                                            *)
(***************************************************************************)
Common == DOMAIN prev_state \cap DOMAIN curr_courses

StrictlyAscending(cs) ==
    \A k \in 1..(Len(cs) - 1) : StrLess(cs[k].course_id, cs[k + 1].course_id)

Records(cs) == {cs[k] : k \in 1..Len(cs)}

\* C3: after diff_courses, the identifiers of added, those of removed and the
\* identifiers common to both snapshots are pairwise disjoint, added with the
\* common ones are the current keys, and removed with the common ones are the
\* prior keys
C3_DiffPartition ==
    pc = "notify" =>
        /\ Ids(new_courses) \cap Ids(removed_courses) = {}
        /\ Ids(new_courses) \cap Common = {}
        /\ Ids(removed_courses) \cap Common = {}
        /\ Ids(new_courses) \cup Common = DOMAIN curr_courses
        /\ Ids(removed_courses) \cup Common = DOMAIN prev_state

\* all three parts of the partition are non-empty
C3_Witness ==
    /\ pc = "notify"
    /\ Ids(new_courses) # {}
    /\ Ids(removed_courses) # {}
    /\ Common # {}

\* C4: added is the current records whose identifier the prior snapshot
\* lacks, removed the records rebuilt from the prior snapshot's entries whose
\* identifier the current snapshot lacks, both strictly ascending by
\* identifier; an empty prior snapshot gives every current record as added
\* and nothing as removed
C4_DiffRecordsSorted ==
    pc = "notify" =>
        /\ Records(new_courses) =
               {curr_courses[c] : c \in DOMAIN curr_courses \ DOMAIN prev_state}
        /\ Records(removed_courses) =
               {CourseFromDict(prev_state[c]) : c \in DOMAIN prev_state \ DOMAIN curr_courses}
        /\ StrictlyAscending(new_courses)
        /\ StrictlyAscending(removed_courses)
        /\ prev_state = EmptyDict =>
               /\ Records(new_courses) = {curr_courses[c] : c \in DOMAIN curr_courses}
               /\ Len(new_courses) = Cardinality(DOMAIN curr_courses)
               /\ removed_courses = <<>>

\* two courses added, FK2.604 ahead of FK2.604-A, and one removed
C4_Witness ==
    /\ pc = "notify"
    /\ Len(new_courses) = 2
    /\ new_courses[1].course_id = IdB
    /\ new_courses[2].course_id = IdA
    /\ Len(removed_courses) = 1

(***************************************************************************)
(* pdf_to_courses                                                          *)
(***************************************************************************)
MatchIds == {Group1(text, matches[k]) : k \in 1..Len(matches)}

\* text[start:end] of the k-th match, untrimmed
Span(k) ==
    Slice(text, matches[k].start,
          IF k < Len(matches) THEN matches[k + 1].start ELSE Len(text))

Spans == [k \in 1..Len(matches) |-> Span(k)]

FromFirstMatch == IF matches = <<>> THEN <<>> ELSE Slice(text, matches[1].start, Len(text))

\* C7 as stated: N matches give N blocks, block k is the text from the k-th
\* match's start to the next match's start or the end of the text, and the
\* blocks concatenated are the text from the first match's start on
C7_BlocksAreSpans ==
    pc = "diff" =>
        /\ Len(blocks) = Len(matches)
        /\ \A k \in 1..Len(blocks) : blocks[k] = Span(k)
        /\ Concat(blocks) = FromFirstMatch

\* C7 as amended: N matches give N blocks in document order, block k is the
\* text from the k-th match's start to the next match's start or the end of
\* the text with its trailing whitespace removed, and those spans, untrimmed,
\* concatenated are the text from the first match's start on
C7_BlocksAreTrimmedSpans ==
    pc = "diff" =>
        /\ Len(blocks) = Len(matches)
        /\ \A k \in 1..Len(blocks) :
               /\ blocks[k] # <<>>
               /\ blocks[k][Len(blocks[k])] \notin Whitespace
               /\ Len(blocks[k]) <= Len(Span(k))
               /\ blocks[k] = SubSeq(Span(k), 1, Len(blocks[k]))
               /\ \A n \in (Len(blocks[k]) + 1)..Len(Span(k)) : Span(k)[n] \in Whitespace
        /\ Concat(Spans) = FromFirstMatch

\* three blocks, the first two of them shorter than their spans
C7_Witness ==
    /\ pc = "diff"
    /\ Len(blocks) = 3
    /\ Len(blocks[1]) < Len(Span(1))
    /\ Len(blocks[2]) < Len(Span(2))
    /\ matches[1].start > 0

\* the last match of identifier cid
LastMatch(cid) == SetMax({k \in 1..Len(matches) : Group1(text, matches[k]) = cid})

TitleFrom(ln) == IF Search(ln) THEN Rest(ln) ELSE ln

\* C9 as stated: a line with a match qualifies when something is left of it
QualifiesAsStated(ln, cid) ==
    IF Search(ln) THEN Rest(ln) # <<>> ELSE Len(ln) >= 6

\* C9 as amended: and what is left is not the block's identifier in another case
QualifiesAsAmended(ln, cid) ==
    IF Search(ln) THEN Rest(ln) # <<>> /\ LowerCase(Rest(ln)) # LowerCase(cid)
    ELSE Len(ln) >= 6

FirstSix(lines) == {j \in 1..Len(lines) : j <= 6}

\* the record of the iteration that just ended
JustBuilt == courses[Group1(text, matches[i])]

JustBuiltLines == BlockLines(blocks[i])

\* C9 as stated
C9_TitleFirstQualifying ==
    (pc = "parse_loop" /\ i > 0) =>
        LET cid == Group1(text, matches[i])
            q == {j \in FirstSix(JustBuiltLines) : QualifiesAsStated(JustBuiltLines[j], cid)}
        IN  /\ JustBuilt.title = IF q = {} THEN <<>> ELSE TitleFrom(JustBuiltLines[SetMin(q)])
            /\ JustBuilt.course_id = cid
            /\ JustBuilt.raw = blocks[i]

\* C9 as amended: the title of a block is that of the first qualifying line
\* among its first six non-empty lines, the empty string when there is none,
\* where a line with a match qualifies when what is left of it is not empty
\* and not the block's identifier in another case, and a line without a match
\* when it has six characters or more; the record has the identifier and the
\* whole block all the same
C9_TitleFirstQualifyingNotRepeat ==
    (pc = "parse_loop" /\ i > 0) =>
        LET cid == Group1(text, matches[i])
            q == {j \in FirstSix(JustBuiltLines) : QualifiesAsAmended(JustBuiltLines[j], cid)}
        IN  /\ JustBuilt.title = IF q = {} THEN <<>> ELSE TitleFrom(JustBuiltLines[SetMin(q)])
            /\ JustBuilt.course_id = cid
            /\ JustBuilt.raw = blocks[i]

\* a block whose first line is its identifier and the identifier again in
\* lower case, whose next five lines are too short, and whose eighth line
\* would qualify: the title is empty
C9_Witness ==
    /\ pc = "parse_loop"
    /\ i > 0
    /\ Len(JustBuiltLines) >= 8
    /\ Search(JustBuiltLines[1])
    /\ Rest(JustBuiltLines[1]) # <<>>
    /\ \A j \in 2..6 : Len(JustBuiltLines[j]) < 6
    /\ Len(JustBuiltLines[8]) >= 6
    /\ JustBuilt.title = <<>>
    /\ JustBuilt.raw = blocks[i]

=============================================================================
